---- MODULE Spec2Model ----
(***************************************************************************)
(* Model of the request pipeline of frameioclient:                         *)
(*   FrameioClient.__init__ / _api_call   (src/frameioclient/client.py)    *)
(*   PaginatedResponse                    (src/frameioclient/client.py)    *)
(*   FrameioDownloader.download           (src/frameioclient/download.py)  *)
(* Strings that the code inspects character by character (host, endpoint,  *)
(* header values) are sequences of one-character strings.                  *)
(***************************************************************************)
EXTENDS Integers, Sequences, FiniteSets, TLC

VARIABLES
  token, host, client_version, retry_strategy,   \* the FrameioClient instance
  pc, method, endpoint,                          \* per caller: position and arguments of _api_call
  retries, attempts, inflight, all429,           \* per caller: the transport's retry loop
  r, result,                                     \* per caller: terminal response and outcome
  dl_pc, asset, download_folder, dl_r, dl_result, \* FrameioDownloader.download
  fs, fs0                                        \* the local disk, and the target file before the call

client == <<token, host, client_version, retry_strategy>>
calls == <<pc, method, endpoint, retries, attempts, inflight, all429, r, result>>
dl == <<dl_pc, asset, download_folder, dl_r, dl_result, fs, fs0>>
vars == <<client, calls, dl>>

\* ------------------------------------------------------------------ bounds
NumCallers == 2
MaxBodyLen == 2

\* ------------------------------------------------------- character strings
None == <<"None">>

HTTPS_PREFIX == <<"h", "t", "t", "p", "s", ":", "/", "/">>
API_PREFIX == <<"/", "v", "2">>
PRESENTATION == <<"p", "r", "e", "s", "e", "n", "t", "a", "t", "i", "o", "n">>

DefaultHost == <<"h", "t", "t", "p", "s", ":", "/", "/", "a", "p", "i", ".", "f", "r", "a", "m", "e", ".", "i", "o">>
HttpHost == <<"h", "t", "t", "p", ":", "/", "/", "a", "p", "i">>
UpperCaseHost == <<"H", "T", "T", "P", "S", ":", "/", "/", "a", "p", "i">>
PaddedHost == <<" ", "h", "t", "t", "p", "s", ":", "/", "/", "a", "p", "i">>
Hosts == {DefaultHost, HttpHost, UpperCaseHost, PaddedHost}

PresentationsEndpoint ==
  <<"/", "a", "s", "s", "e", "t", "s", "/", "1", "/", "p", "r", "e", "s", "e", "n", "t", "a", "t", "i", "o", "n", "s">>
Endpoints ==
  { <<"/", "m", "e">>,
    PresentationsEndpoint,
    <<"/", "a", "s", "s", "e", "t", "s", "/", "1", "/", "P", "r", "e", "s", "e", "n", "t", "a", "t", "i", "o", "n", "s">>,
    <<"/", "a", "s", "s", "e", "t", "s", "/", "1", "/", "p", "r", "e", "s", "e", "n", "t">> }

Methods == {"get", "post", "put", "delete", "GET", "OPTIONS"}

\* str.upper() on the method names in use
Upper(m) ==
  CASE m = "get" -> "GET"
    [] m = "post" -> "POST"
    [] m = "put" -> "PUT"
    [] m = "delete" -> "DELETE"
    [] m = "options" -> "OPTIONS"
    [] OTHER -> m

\* str.lower() on one character
LowerChar(ch) ==
  CASE ch = "H" -> "h"
    [] ch = "T" -> "t"
    [] ch = "P" -> "p"
    [] ch = "S" -> "s"
    [] OTHER -> ch

Lower(s) == [i \in 1..Len(s) |-> LowerChar(s[i])]

RECURSIVE Lstrip(_)
Lstrip(s) == IF s # <<>> /\ Head(s) = " " THEN Lstrip(Tail(s)) ELSE s

StartsWith(s, p) == Len(s) >= Len(p) /\ SubSeq(s, 1, Len(p)) = p

Contains_ignoring_case(s, needle) ==
  \E i \in 1..(Len(s) - Len(needle) + 1) : Lower(SubSeq(s, i, i + Len(needle) - 1)) = Lower(needle)

\* Python's  needle in s  for strings
Contains(s, needle) ==
  \E i \in 1..(Len(s) - Len(needle) + 1) : SubSeq(s, i, i + Len(needle) - 1) = needle

Digits == {"0", "1", "2", "3", "4", "5", "6", "7", "8", "9"}

DigitVal(d) ==
  CASE d = "0" -> 0 [] d = "1" -> 1 [] d = "2" -> 2 [] d = "3" -> 3 [] d = "4" -> 4
    [] d = "5" -> 5 [] d = "6" -> 6 [] d = "7" -> 7 [] d = "8" -> 8 [] d = "9" -> 9

IsDigits(s) == Len(s) > 0 /\ \A i \in 1..Len(s) : s[i] \in Digits

\* the strings int() accepts among the header values in use: [-]digits
IsInt(s) ==
  /\ s # None
  /\ Len(s) > 0
  /\ IF Head(s) = "-" THEN IsDigits(Tail(s)) ELSE IsDigits(s)

RECURSIVE NatOf(_)
NatOf(s) == IF s = <<>> THEN 0 ELSE 10 * NatOf(SubSeq(s, 1, Len(s) - 1)) + DigitVal(s[Len(s)])

\* int(s) for a string s with IsInt(s)
IntOf(s) == IF Head(s) = "-" THEN 0 - NatOf(Tail(s)) ELSE NatOf(s)

\* ------------------------------------------------------------ retry policy
RetryTotal == 3
BackoffFactor == 1

NewRetryStrategy_any_method ==
  [ total |-> RetryTotal,
    backoff_factor |-> BackoffFactor,
    status_forcelist |-> {429},
    method_whitelist |-> {"POST", "OPTIONS", "GET", "PUT", "DELETE"} ]

\* Retry(total=3, backoff_factor=1, status_forcelist=[429], method_whitelist=[...])
NewRetryStrategy ==
  [ total |-> RetryTotal,
    backoff_factor |-> BackoffFactor,
    status_forcelist |-> {429},
    method_whitelist |-> {"POST", "OPTIONS", "GET"} ]

\* the Retry(0) of the adapters a new requests.Session mounts by default
DefaultRetry ==
  [ total |-> 0,
    backoff_factor |-> 0,
    status_forcelist |-> {},
    method_whitelist |-> {"HEAD", "GET", "PUT", "DELETE", "OPTIONS", "TRACE"} ]

RETRY_AFTER_STATUS_CODES == {413, 429, 503}

\* Retry.is_retry(method, status_code, has_retry_after)
is_retry(retry, m, status_code, has_retry_after) ==
  IF m \notin retry.method_whitelist THEN FALSE
  ELSE IF status_code \in retry.status_forcelist THEN TRUE
  ELSE /\ retry.total # 0
       /\ has_retry_after
       /\ status_code \in RETRY_AFTER_STATUS_CODES

increment_inplace(retry) ==
  [ self |-> [retry EXCEPT !.total = @ - 1], new |-> [retry EXCEPT !.total = @ - 1] ]

\* Retry.increment(): the receiver is left as it was, a new Retry with one
\* retry less is returned
increment(retry) ==
  [ self |-> retry, new |-> [retry EXCEPT !.total = @ - 1] ]

is_exhausted_at_zero(retry) == retry.total <= 0

\* Retry.is_exhausted()
is_exhausted(retry) == retry.total < 0

Mounted_any_scheme(url) == StartsWith(Lower(Lstrip(url)), <<"h", "t", "t", "p">>)

\* http.mount("https://", adapter): Session.get_adapter picks the mounted
\* adapter for a URL that, stripped and lower-cased, starts with the prefix
Mounted(url) == StartsWith(Lower(Lstrip(url)), Lower(HTTPS_PREFIX))

\* url = '{}/v2{}'.format(self.host, endpoint)
Url(h, e) == h \o API_PREFIX \o e

\* ------------------------------------------------------- server responses
HeaderNames == {"page-number", "per-page", "total-pages", "total", "Retry-After"}

NoHeaders == [k \in HeaderNames |-> None]

\* response bodies: two JSON documents and an empty body (204-style)
Bodies == {"[]", "[1,2]", ""}

IsJson(b) == b \in {"[]", "[1,2]"}

\* json.loads on the bodies in use
JsonDecode(b) == IF b = "[1,2]" THEN <<1, 2>> ELSE <<>>

PageNumberValues == {None, <<>>, <<"2">>, <<"x">>}
PerPageValues == {None, <<"1", "0">>, <<"x">>}
TotalPagesValues == {None, <<"1">>, <<"3">>, <<"x">>}
TotalValues == {None, <<"2", "5">>}

OkStatuses == {200, 304}
ErrorStatuses == {404, 422, 429, 503}

OkResponses ==
  { [ status_code |-> s,
      headers |-> [k \in HeaderNames |->
                     CASE k = "page-number" -> pn
                       [] k = "per-page" -> pp
                       [] k = "total-pages" -> tp
                       [] k = "total" -> tot
                       [] OTHER -> None],
      content |-> b ] :
    s \in OkStatuses, pn \in PageNumberValues, pp \in PerPageValues,
    tp \in TotalPagesValues, tot \in TotalValues, b \in Bodies }

ErrorResponses ==
  { [ status_code |-> s,
      headers |-> [NoHeaders EXCEPT !["Retry-After"] = ra],
      content |-> b ] :
    s \in ErrorStatuses, ra \in {None, <<"1">>}, b \in {"[]", "<html>"} }

Responses == OkResponses \cup ErrorResponses

\* the responses the callers of the shared-client specification see
SharedResponses ==
  { resp \in Responses :
      /\ resp.status_code \in {200, 429}
      /\ resp.content = "[]"
      /\ resp.headers = NoHeaders }

NoResponse == [status_code |-> 0, headers |-> NoHeaders, content |-> ""]

\* bool(s) for a header value
Truthy(v) == v # None /\ v # <<>>

\* ------------------------------------------------------------- outcomes
NoResult == [kind |-> "none"]
Return(v) == [kind |-> "return", value |-> v]
Raise(e) == [kind |-> "raise", exc |-> e]
HTTPError(resp) ==
  [kind |-> "raise", exc |-> "HTTPError", status_code |-> resp.status_code, content |-> resp.content]

PaginatedResponse_totals_swapped(results, page, page_size, total, total_pages) ==
  IF ~IsInt(page) \/ ~IsInt(page_size) \/ ~IsInt(total) \/ ~IsInt(total_pages)
  THEN Raise("ValueError")
  ELSE [ kind |-> "PaginatedResponse",
         results |-> results,
         page |-> IntOf(page),
         page_size |-> IntOf(page_size),
         total |-> IntOf(total_pages),
         total_pages |-> IntOf(total) ]

\* PaginatedResponse.__init__
PaginatedResponse(results, page, page_size, total, total_pages) ==
  IF ~IsInt(page) \/ ~IsInt(page_size) \/ ~IsInt(total) \/ ~IsInt(total_pages)
  THEN Raise("ValueError")
  ELSE [ kind |-> "PaginatedResponse",
         results |-> results,
         page |-> IntOf(page),
         page_size |-> IntOf(page_size),
         total |-> IntOf(total),
         total_pages |-> IntOf(total_pages) ]

\* r.json()
Json(resp) == IF IsJson(resp.content) THEN Return(JsonDecode(resp.content)) ELSE Raise("ValueError")

raise_for_status_client_errors_only(resp) ==
  IF 400 <= resp.status_code /\ resp.status_code < 500 THEN HTTPError(resp) ELSE Return(None)

\* r.raise_for_status()
raise_for_status(resp) ==
  IF 400 <= resp.status_code /\ resp.status_code < 600 THEN HTTPError(resp) ELSE Return(None)

\* r.ok: raise_for_status() does not raise
ok(resp) == raise_for_status(resp).kind # "raise"

\* _api_call from  if r.ok:  to its end
Interpret(resp, e) ==
  LET h == resp.headers IN
  IF ok(resp)
  THEN IF Truthy(h["page-number"])
       THEN IF h["total-pages"] = None THEN Raise("TypeError")
            ELSE IF ~IsInt(h["total-pages"]) THEN Raise("ValueError")
            ELSE IF IntOf(h["total-pages"]) > 1
                 THEN IF ~IsJson(resp.content) THEN Raise("ValueError")
                      ELSE IF h["per-page"] = None \/ h["total"] = None THEN Raise("KeyError")
                      ELSE PaginatedResponse(JsonDecode(resp.content), h["page-number"],
                                             h["per-page"], h["total"], h["total-pages"])
                 ELSE Json(resp)
       ELSE Json(resp)
  ELSE IF resp.status_code = 422 /\ Contains(e, PRESENTATION) THEN Raise("PresentationException")
  ELSE raise_for_status(resp)

\* ------------------------------------------------------------ _api_call
\* the Retry object the transport consults: self.retry_strategy itself until
\* the first increment, the call's own copy afterwards
CurrentRetry(c) == IF retries[c].shared THEN retry_strategy ELSE retries[c].retry

\* _api_call up to http.request: the URL is composed and the adapter chosen
ApiCall(c, m, e) ==
  /\ pc[c] = "idle"
  /\ pc' = [pc EXCEPT ![c] = "send"]
  /\ method' = [method EXCEPT ![c] = m]
  /\ endpoint' = [endpoint EXCEPT ![c] = e]
  /\ retries' = [retries EXCEPT ![c] = IF Mounted(Url(host, e))
                                       THEN [shared |-> TRUE, retry |-> retry_strategy]
                                       ELSE [shared |-> FALSE, retry |-> DefaultRetry]]
  /\ attempts' = [attempts EXCEPT ![c] = 0]
  /\ inflight' = [inflight EXCEPT ![c] = 0]
  /\ all429' = [all429 EXCEPT ![c] = TRUE]
  /\ r' = [r EXCEPT ![c] = NoResponse]
  /\ result' = [result EXCEPT ![c] = NoResult]
  /\ UNCHANGED <<client, dl>>

\* one HTTP attempt goes out
SendAttempt(c) ==
  /\ pc[c] = "send"
  /\ pc' = [pc EXCEPT ![c] = "recv"]
  /\ attempts' = [attempts EXCEPT ![c] = @ + 1]
  /\ inflight' = [inflight EXCEPT ![c] = @ + 1]
  /\ UNCHANGED <<client, method, endpoint, retries, all429, r, result, dl>>

\* the server answers the attempt: the transport retries it, gives up, or
\* hands the response to the rest of _api_call
ReceiveResponse(c, resp) ==
  /\ pc[c] = "recv"
  /\ inflight' = [inflight EXCEPT ![c] = @ - 1]
  /\ all429' = [all429 EXCEPT ![c] = @ /\ resp.status_code = 429]
  /\ IF is_retry(CurrentRetry(c), Upper(method[c]), resp.status_code,
                 Truthy(resp.headers["Retry-After"]))
     THEN LET inc == increment(CurrentRetry(c)) IN
          /\ retry_strategy' = IF retries[c].shared THEN inc.self ELSE retry_strategy
          /\ retries' = [retries EXCEPT ![c] = [shared |-> FALSE, retry |-> inc.new]]
          /\ IF is_exhausted(inc.new)
             THEN /\ pc' = [pc EXCEPT ![c] = "done"]
                  /\ result' = [result EXCEPT ![c] = Raise("RetryError")]
             ELSE /\ pc' = [pc EXCEPT ![c] = "send"]
                  /\ UNCHANGED result
          /\ UNCHANGED r
     ELSE /\ r' = [r EXCEPT ![c] = resp]
          /\ result' = [result EXCEPT ![c] = Interpret(resp, endpoint[c])]
          /\ pc' = [pc EXCEPT ![c] = "done"]
          /\ UNCHANGED <<retry_strategy, retries>>
  /\ UNCHANGED <<token, host, client_version, method, endpoint, attempts, dl>>

\* _api_call has returned or raised: its locals are gone and the caller may call again
Finish(c) ==
  /\ pc[c] = "done"
  /\ pc' = [pc EXCEPT ![c] = "idle"]
  /\ method' = [method EXCEPT ![c] = "get"]
  /\ endpoint' = [endpoint EXCEPT ![c] = <<>>]
  /\ retries' = [retries EXCEPT ![c] = [shared |-> FALSE, retry |-> DefaultRetry]]
  /\ attempts' = [attempts EXCEPT ![c] = 0]
  /\ all429' = [all429 EXCEPT ![c] = FALSE]
  /\ r' = [r EXCEPT ![c] = NoResponse]
  /\ result' = [result EXCEPT ![c] = NoResult]
  /\ UNCHANGED <<client, inflight, dl>>

\* ------------------------------------------- FrameioDownloader.download
Bytes == {"a", "b"}

RECURSIVE SeqsUpTo(_, _)
SeqsUpTo(S, n) ==
  IF n = 0 THEN {<<>>}
  ELSE LET shorter == SeqsUpTo(S, n - 1) IN
       shorter \cup {Append(q, x) : q \in {t \in shorter : Len(t) = n - 1}, x \in S}

Contents == SeqsUpTo(Bytes, MaxBodyLen)

NoFile == <<"ENOENT">>

Names == {"clip.mp4", "notes.txt"}
Folders == {"D", "missing"}
ExistingFolders == {"D"}

\* os.path.join(self.download_folder, original_filename)
Join(d, n) == <<d, n>>

Paths == {Join(d, n) : d \in ExistingFolders, n \in Names}

Assets == [name : Names, original : {"https://s3/original"}]

DlStatuses == {200, 404, 503}
DlResponses == [status_code : DlStatuses, content : Contents]
NoDlResponse == [status_code |-> 0, content |-> <<>>]

final_destination == Join(download_folder, asset.name)

\* FrameioClient.download: a downloader is built for the asset and started
Download(a, d) ==
  /\ dl_pc = "idle"
  /\ asset' = a
  /\ download_folder' = d
  /\ fs0' = IF Join(d, a.name) \in Paths THEN fs[Join(d, a.name)] ELSE NoFile
  /\ dl_pc' = "get"
  /\ dl_r' = NoDlResponse
  /\ dl_result' = NoResult
  /\ UNCHANGED <<client, calls, fs>>

\* r = requests.get(url): any status comes back as a response, a transport
\* failure raises
DlGet(resp) ==
  /\ dl_pc = "get"
  /\ dl_r' = resp
  /\ dl_pc' = "open"
  /\ UNCHANGED <<client, calls, asset, download_folder, dl_result, fs, fs0>>

DlGetFails ==
  /\ dl_pc = "get"
  /\ dl_result' = Raise("ConnectionError")
  /\ dl_pc' = "done"
  /\ UNCHANGED <<client, calls, asset, download_folder, dl_r, fs, fs0>>

\* open(final_destination, 'wb'): creates the file or truncates it to length 0
DlOpen ==
  /\ dl_pc = "open"
  /\ IF final_destination \in Paths
     THEN /\ fs' = [fs EXCEPT ![final_destination] = <<>>]
          /\ dl_pc' = "write"
          /\ UNCHANGED dl_result
     ELSE /\ dl_result' = Raise("FileNotFoundError")
          /\ dl_pc' = "done"
          /\ UNCHANGED fs
  /\ UNCHANGED <<client, calls, asset, download_folder, dl_r, fs0>>

\* .write(r.content) and the implicit close of the unnamed file object: n
\* bytes reach the disk.  A short write (disk full) raises OSError when it
\* happens inside write(), and is swallowed when it happens while the
\* buffered data is flushed by the file object's finalizer.
DlWrite(n, swallowed) ==
  /\ dl_pc = "write"
  /\ n \in 0..Len(dl_r.content)
  /\ fs' = [fs EXCEPT ![final_destination] = SubSeq(dl_r.content, 1, n)]
  /\ dl_result' = IF n = Len(dl_r.content) \/ swallowed THEN Return(None) ELSE Raise("OSError")
  /\ dl_pc' = "done"
  /\ UNCHANGED <<client, calls, asset, download_folder, dl_r, fs0>>

\* download has returned or raised
DlFinish ==
  /\ dl_pc = "done"
  /\ dl_pc' = "idle"
  /\ UNCHANGED <<client, calls, asset, download_folder, dl_r, dl_result, fs, fs0>>

\* --------------------------------------------------------- specifications
Tokens == {"token"}
Versions == {"1.0.0"}

\* FrameioClient.__init__
ClientInit ==
  /\ token \in Tokens
  /\ host \in Hosts
  /\ retry_strategy = NewRetryStrategy
  /\ client_version \in Versions

CallsInit(callers) ==
  /\ pc = [c \in callers |-> "idle"]
  /\ method = [c \in callers |-> "get"]
  /\ endpoint = [c \in callers |-> <<>>]
  /\ retries = [c \in callers |-> [shared |-> FALSE, retry |-> DefaultRetry]]
  /\ attempts = [c \in callers |-> 0]
  /\ inflight = [c \in callers |-> 0]
  /\ all429 = [c \in callers |-> FALSE]
  /\ r = [c \in callers |-> NoResponse]
  /\ result = [c \in callers |-> NoResult]

DlIdle ==
  /\ dl_pc = "idle"
  /\ asset = [name |-> "clip.mp4", original |-> "https://s3/original"]
  /\ download_folder = "D"
  /\ dl_r = NoDlResponse
  /\ dl_result = NoResult
  /\ fs = [p \in Paths |-> NoFile]
  /\ fs0 = NoFile

\* one caller, every response
Init == ClientInit /\ CallsInit({1}) /\ DlIdle

Next ==
  \/ \E c \in DOMAIN pc, m \in Methods, e \in Endpoints : ApiCall(c, m, e)
  \/ \E c \in DOMAIN pc : SendAttempt(c)
  \/ \E c \in DOMAIN pc, resp \in Responses : ReceiveResponse(c, resp)
  \/ \E c \in DOMAIN pc : Finish(c)

Spec == Init /\ [][Next]_vars

\* several callers share one client
InitShared == ClientInit /\ CallsInit(1..NumCallers) /\ DlIdle

NextShared ==
  \/ \E c \in DOMAIN pc, m \in {"get", "put"}, e \in {<<"/", "m", "e">>} : ApiCall(c, m, e)
  \/ \E c \in DOMAIN pc : SendAttempt(c)
  \/ \E c \in DOMAIN pc, resp \in SharedResponses : ReceiveResponse(c, resp)
  \/ \E c \in DOMAIN pc : Finish(c)

SpecShared == InitShared /\ [][NextShared]_vars

\* downloads onto a disk that holds any files
InitDl ==
  /\ ClientInit /\ host = DefaultHost
  /\ CallsInit({1})
  /\ dl_pc = "idle"
  /\ asset = [name |-> "clip.mp4", original |-> "https://s3/original"]
  /\ download_folder = "D"
  /\ dl_r = NoDlResponse
  /\ dl_result = NoResult
  /\ fs \in [Paths -> Contents \cup {NoFile}]
  /\ fs0 = NoFile

NextDl ==
  \/ \E a \in Assets, d \in Folders : Download(a, d)
  \/ \E resp \in DlResponses : DlGet(resp)
  \/ DlGetFails
  \/ DlOpen
  \/ \E n \in 0..MaxBodyLen, swallowed \in BOOLEAN : DlWrite(n, swallowed)
  \/ DlFinish

SpecDl == InitDl /\ [][NextDl]_vars

\* ------------------------------------------------------------------ claims
Eligible(c) == Upper(method[c]) \in {"GET", "POST", "OPTIONS"}

\* the call of caller c has ended with a response handed to the interpreter
Terminal(c) == pc[c] = "done" /\ r[c] # NoResponse

Is2xx(resp) == 200 <= resp.status_code /\ resp.status_code < 300

HttpsHosts == {DefaultHost, UpperCaseHost, PaddedHost}

C2_NoRetryForPutDelete ==
  \A c \in DOMAIN pc :
    (pc[c] # "idle" /\ Upper(method[c]) \in {"PUT", "DELETE"}) =>
      /\ attempts[c] <= 1
      /\ (attempts[c] = 1 /\ inflight[c] = 0 => pc[c] = "done" /\ r[c] # NoResponse)
      /\ (Terminal(c) /\ r[c].status_code = 429 =>
            result[c] = [kind |-> "raise", exc |-> "HTTPError",
                         status_code |-> 429, content |-> r[c].content])

C2_Witness ==
  \E c \in DOMAIN pc :
    /\ Terminal(c) /\ method[c] = "put" /\ host = DefaultHost
    /\ r[c].status_code = 429 /\ attempts[c] = 1 /\ result[c].kind = "raise"

\* the integer each integer-valued header value in use stands for
HeaderInt(v) ==
  CASE v = <<"2">> -> 2
    [] v = <<"1", "0">> -> 10
    [] v = <<"1">> -> 1
    [] v = <<"3">> -> 3
    [] v = <<"2", "5">> -> 25

IntegerHeaderValues == {<<"2">>, <<"1", "0">>, <<"1">>, <<"3">>, <<"2", "5">>}

\* the JSON value each JSON body in use stands for
BodyJson(b) == CASE b = "[]" -> <<>> [] b = "[1,2]" -> <<1, 2>>

JsonBodies == {"[]", "[1,2]"}

PageOf(resp) ==
  [ kind |-> "PaginatedResponse",
    results |-> BodyJson(resp.content),
    page |-> HeaderInt(resp.headers["page-number"]),
    page_size |-> HeaderInt(resp.headers["per-page"]),
    total |-> HeaderInt(resp.headers["total"]),
    total_pages |-> HeaderInt(resp.headers["total-pages"]) ]

\* C3 as stated: every terminal 2xx response with a JSON body, a (non-empty)
\* page-number header and an integer total-pages header above 1 yields a
\* PaginatedResponse carrying the four header integers and the decoded body.
C3_AsStated ==
  \A c \in DOMAIN pc :
    ( /\ Terminal(c) /\ Is2xx(r[c])
      /\ r[c].content \in JsonBodies
      /\ r[c].headers["page-number"] \notin {None, <<>>}
      /\ r[c].headers["total-pages"] \in IntegerHeaderValues
      /\ HeaderInt(r[c].headers["total-pages"]) > 1 ) =>
      /\ result[c].kind = "PaginatedResponse"
      /\ \A k \in {"page-number", "per-page", "total"} : r[c].headers[k] \in IntegerHeaderValues
      /\ result[c] = PageOf(r[c])

\* C3 amended: every terminal 2xx response with a non-empty page-number header,
\* an integer total-pages header above 1, integer page-number, per-page and
\* total headers and a JSON body yields a PaginatedResponse carrying the four
\* header integers and the decoded body.
C3_WellFormedPage ==
  \A c \in DOMAIN pc :
    ( /\ Terminal(c) /\ Is2xx(r[c])
      /\ r[c].headers["total-pages"] \in IntegerHeaderValues
      /\ HeaderInt(r[c].headers["total-pages"]) > 1
      /\ \A k \in {"page-number", "per-page", "total"} : r[c].headers[k] \in IntegerHeaderValues
      /\ r[c].content \in JsonBodies ) =>
      result[c] = PageOf(r[c])

C3_Witness ==
  \E c \in DOMAIN pc :
    /\ Terminal(c) /\ r[c].status_code = 200
    /\ result[c] = [ kind |-> "PaginatedResponse", results |-> <<1, 2>>, page |-> 2,
                     page_size |-> 10, total |-> 25, total_pages |-> 3 ]

\* C4 as stated: every terminal 2xx response with a JSON body that lacks a
\* page-number header, or whose total-pages header is absent or not an integer
\* above 1, yields the decoded body itself, never a PaginatedResponse or an error.
C4_AsStated ==
  \A c \in DOMAIN pc :
    ( /\ Terminal(c) /\ Is2xx(r[c])
      /\ r[c].content \in JsonBodies
      /\ \/ r[c].headers["page-number"] = None
         \/ r[c].headers["total-pages"] = None
         \/ r[c].headers["total-pages"] = <<"1">> ) =>
      result[c] = [kind |-> "return", value |-> BodyJson(r[c].content)]

\* C5: a terminal 422 raises PresentationException when the endpoint contains
\* "presentation" (in that letter case) and the generic HTTP error otherwise; it
\* never returns a value.
C5_PresentationError ==
  \A c \in DOMAIN pc :
    (Terminal(c) /\ r[c].status_code = 422) =>
      IF endpoint[c] = PresentationsEndpoint
      THEN result[c] = [kind |-> "raise", exc |-> "PresentationException"]
      ELSE result[c] = [kind |-> "raise", exc |-> "HTTPError",
                        status_code |-> 422, content |-> r[c].content]

C5_Witness ==
  \E c \in DOMAIN pc :
    /\ Terminal(c) /\ r[c].status_code = 422
    /\ endpoint[c] = PresentationsEndpoint
    /\ result[c] = [kind |-> "raise", exc |-> "PresentationException"]

ExpectedHttpError(c) ==
  [ kind |-> "raise", exc |-> "HTTPError",
    status_code |-> r[c].status_code, content |-> r[c].content ]

C7_NoFileOnErrorStatus ==
  ( /\ dl_pc = "done" /\ dl_r # NoDlResponse
    /\ ~Is2xx(dl_r)
    /\ final_destination \in Paths ) =>
    /\ dl_result.kind = "raise"
    /\ fs[final_destination] = fs0

\* C8: after a download of a 2xx response the file at the final destination
\* holds what it held before or the whole body, and when it does not hold the
\* whole body the call has raised.
C8_NoTruncatedFile ==
  ( /\ dl_pc = "done" /\ dl_r # NoDlResponse
    /\ Is2xx(dl_r)
    /\ final_destination \in Paths ) =>
    /\ fs[final_destination] \in {fs0, dl_r.content}
    /\ (fs[final_destination] # dl_r.content => dl_result.kind = "raise")

\* C9: no step of any caller's _api_call changes the client's token, host,
\* client_version or retry_strategy, and every call starts with the retry
\* budget the client was constructed with.
C9_ClientUnchanged ==
  /\ [][client' = client]_vars
  /\ [](\A c \in DOMAIN pc :
          (pc[c] = "send" /\ attempts[c] = 0) =>
            CurrentRetry(c).total = IF host \in HttpsHosts THEN 3 ELSE 0)

C9_Witness ==
  \E c1, c2 \in DOMAIN pc :
    /\ c1 # c2
    /\ pc[c1] = "done" /\ result[c1] = Raise("RetryError")
    /\ pc[c2] = "send" /\ attempts[c2] = 0 /\ host = DefaultHost

\* C10 as stated: on a client whose host does not begin with "https://" no call
\* sends a second attempt, and a 429 ends in the generic HTTP error.
C10_AsStated ==
  \A c \in DOMAIN pc :
    (pc[c] # "idle" /\ ~StartsWith(host, HTTPS_PREFIX)) =>
      /\ attempts[c] <= 1
      /\ (Terminal(c) /\ r[c].status_code = 429 => result[c] = ExpectedHttpError(c))

\* C10 amended: on a client whose host, stripped of leading blanks and
\* lower-cased, does not begin with "https://" no call sends a second attempt,
\* and a 429 ends in the generic HTTP error.
C10_NoRetryOffHttps ==
  \A c \in DOMAIN pc :
    (pc[c] # "idle" /\ host \notin HttpsHosts) =>
      /\ attempts[c] <= 1
      /\ (attempts[c] = 1 /\ inflight[c] = 0 => Terminal(c))
      /\ (Terminal(c) /\ r[c].status_code = 429 =>
            result[c] = [kind |-> "raise", exc |-> "HTTPError",
                         status_code |-> 429, content |-> r[c].content])

C10_Witness ==
  \E c \in DOMAIN pc :
    /\ host = HttpHost /\ Terminal(c) /\ Eligible(c)
    /\ r[c].status_code = 429 /\ attempts[c] = 1 /\ result[c].kind = "raise"

====
